---- MODULE Spec2Model ----
(***************************************************************************)
(* A model of raytrace.hh: the Image raster class, SceneSphere::intersect, *)
(* Scene::render with compute_viewing_ray, and Scene::evaluate_shading.    *)
(*                                                                         *)
(* The C++ doubles are modelled by exact rationals <<n, d>> (d > 0, lowest *)
(* terms).  sqrt is exact: the inputs are limited to those whose radicand  *)
(* is the square of a rational.  assert() is enabled (the default build):  *)
(* a failed assert aborts the operation and leaves the object untouched.   *)
(***************************************************************************)
EXTENDS Integers, Sequences, FiniteSets, TLC

VARIABLES
  \* ---- SceneSphere::intersect called on its own
  s_center, s_radius, q_origin, q_direction, isect,
  \* ---- Scene::evaluate_shading
  sh_pc, sh_scene, lidx, accumulated_light, current_point_light, sh_result,
  \* ---- Image
  _pixels, img_pc, n_set, last_set, wy, wx, f_out, success,
  \* ---- Scene::render
  scene, r_pc, width, height, image, i, j, k, ray_origin, ray_direction,
  hit_point, shade_calls

isectVars  == <<s_center, s_radius, q_origin, q_direction, isect>>
shadeVars  == <<sh_pc, sh_scene, lidx, accumulated_light, current_point_light,
                sh_result>>
imageVars  == <<_pixels, img_pc, n_set, last_set, wy, wx, f_out, success>>
renderVars == <<scene, r_pc, width, height, image, i, j, k, ray_origin,
                ray_direction, hit_point, shade_calls>>
vars == <<isectVars, shadeVars, imageVars, renderVars>>

----------------------------------------------------------------------------
(* Bounds of the model.                                                    *)
MaxDim == 2
MaxObjects == 2
MaxLights == 2
MaxSetPixels == 2

----------------------------------------------------------------------------
(* double, as an exact rational in lowest terms.                           *)
RECURSIVE GCD(_, _)
GCD(a, b) == IF b = 0 THEN a ELSE GCD(b, a % b)

Abs(n) == IF n < 0 THEN -n ELSE n

Norm(n, d) ==
  LET g == GCD(Abs(n), Abs(d))
      s == IF d < 0 THEN -1 ELSE 1
  IN <<(s * n) \div g, (s * d) \div g>>

R(n) == <<n, 1>>
RAdd(x, y) == Norm(x[1] * y[2] + y[1] * x[2], x[2] * y[2])
RNeg(x) == <<-x[1], x[2]>>
RSub(x, y) == RAdd(x, RNeg(y))
RMul(x, y) == Norm(x[1] * y[1], x[2] * y[2])
RDiv(x, y) == Norm(x[1] * y[2], x[2] * y[1])
RLt(x, y) == x[1] * y[2] < y[1] * x[2]
RLe(x, y) == x[1] * y[2] <= y[1] * x[2]
RMax(x, y) == IF RLt(x, y) THEN y ELSE x

RECURSIVE SqrtFrom(_, _)
SqrtFrom(n, r) == IF (r + 1) * (r + 1) > n THEN r ELSE SqrtFrom(n, r + 1)
ISqrt(n) == SqrtFrom(n, 0)
IsSquare(n) == n >= 0 /\ ISqrt(n) * ISqrt(n) = n
\* sqrt(x) is exact for x = n/d in lowest terms iff n and d are squares
ExactSqrt(x) == IsSquare(x[1]) /\ IsSquare(x[2])
RSqrt(x) == <<ISqrt(x[1]), ISqrt(x[2])>>

----------------------------------------------------------------------------
(* gmath::Vector<double, 4> (Vector4) and gmath::Vector<double, 3>         *)
(* (Color): the operations raytrace.hh uses.                               *)
VAdd(u, v) ==
  <<RAdd(u[1], v[1]), RAdd(u[2], v[2]), RAdd(u[3], v[3]), RAdd(u[4], v[4])>>
VSub(u, v) ==
  <<RSub(u[1], v[1]), RSub(u[2], v[2]), RSub(u[3], v[3]), RSub(u[4], v[4])>>
VNeg(u) == <<RNeg(u[1]), RNeg(u[2]), RNeg(u[3]), RNeg(u[4])>>
VScale(u, x) == <<RMul(u[1], x), RMul(u[2], x), RMul(u[3], x), RMul(u[4], x)>>
VDivide(u, x) == <<RDiv(u[1], x), RDiv(u[2], x), RDiv(u[3], x), RDiv(u[4], x)>>
VDot(u, v) ==
  RAdd(RAdd(RMul(u[1], v[1]), RMul(u[2], v[2])),
       RAdd(RMul(u[3], v[3]), RMul(u[4], v[4])))
MagnitudeSquared(u) == VDot(u, u)
Magnitude(u) == RSqrt(MagnitudeSquared(u))
is_homogeneous_point(v) == v[4] = R(1)
is_homogeneous_translation(v) == v[4] = R(0)

CAdd(c, e) == <<RAdd(c[1], e[1]), RAdd(c[2], e[2]), RAdd(c[3], e[3])>>
CScale(c, x) == <<RMul(c[1], x), RMul(c[2], x), RMul(c[3], x)>>

vector4(x, y, z, w) == <<R(x), R(y), R(z), R(w)>>
vector4_point(x, y, z) == vector4(x, y, z, 1)
vector4_translation(x, y, z) == vector4(x, y, z, 0)

is_color_intensity(x) == RLe(R(0), x) /\ RLe(x, R(1))
is_color(c) ==
  is_color_intensity(c[1]) /\ is_color_intensity(c[2]) /\ is_color_intensity(c[3])

----------------------------------------------------------------------------
(* Intersection and SceneSphere::intersect.                                *)
NoHit == [kind |-> "none"]
AssertFailed == [kind |-> "abort"]
NotCalled == [kind |-> "pending"]

\* the Intersection constructor, with its three asserts
Intersection(point, normal, t) ==
  IF is_homogeneous_point(point) /\ is_homogeneous_translation(normal)
       /\ RLe(R(0), t)
  THEN [kind |-> "hit", point |-> point, normal |-> normal, t |-> t]
  ELSE AssertFailed

QuadA(ro, rd) == VDot(rd, rd)
QuadB(center, ro, rd) == RMul(VDot(rd, VSub(ro, center)), R(2))
QuadC(center, radius, ro, rd) ==
  RSub(VDot(VSub(ro, center), VSub(ro, center)), RMul(radius, radius))
Discriminant(center, radius, ro, rd) ==
  RSub(RMul(QuadB(center, ro, rd), QuadB(center, ro, rd)),
       RMul(RMul(R(4), QuadA(ro, rd)), QuadC(center, radius, ro, rd)))

\* "use smaller solution"
SmallerSolution(t0, t1) == IF RLt(t0, t1) THEN t0 ELSE t1

SphereIntersect(center, radius, ro, rd) ==
  LET a == QuadA(ro, rd)
      b == QuadB(center, ro, rd)
      discriminant == Discriminant(center, radius, ro, rd)
  IN IF RLt(discriminant, R(0)) THEN NoHit
     ELSE LET t0 == RDiv(RAdd(RNeg(b), RSqrt(discriminant)), RMul(R(2), a))
              t1 == RDiv(RSub(RNeg(b), RSqrt(discriminant)), RMul(R(2), a))
              time == SmallerSolution(t0, t1)
              hit == VAdd(ro, VScale(rd, time))
              hit_normal == VScale(VSub(hit, center), R(2))
          IN Intersection(hit, hit_normal, time)

\* the rays and spheres whose arithmetic is exact in the model
ExactQuery(center, radius, ro, rd) ==
  /\ QuadA(ro, rd) # R(0)
  /\ \/ RLt(Discriminant(center, radius, ro, rd), R(0))
     \/ ExactSqrt(Discriminant(center, radius, ro, rd))

----------------------------------------------------------------------------
(* The parts of the state a specification does not use stay at these.      *)
IsectIdle ==
  /\ s_center = vector4_point(0, 0, 0) /\ s_radius = R(1)
  /\ q_origin = vector4_point(0, 0, 0)
  /\ q_direction = vector4_translation(0, 0, -1)
  /\ isect = NotCalled

----------------------------------------------------------------------------
(* SceneSphere::intersect on its own: one sphere, one ray, one call.       *)
Centers == {vector4_point(0, 0, 0), vector4_point(1, 0, -3)}
Radii == {R(1), R(2)}
Origins == {vector4_point(x, 0, z) : x \in 0..2, z \in -4..4}
Directions ==
  {vector4_translation(0, 0, -1), vector4_translation(0, 0, 1),
   vector4_translation(0, 0, -2), vector4_translation(1, 0, 0),
   vector4_translation(-3, 0, 4)}

IsectInit ==
  /\ s_center \in Centers
  /\ s_radius \in Radii
  /\ q_origin \in Origins
  /\ q_direction \in Directions
  /\ ExactQuery(s_center, s_radius, q_origin, q_direction)
  /\ isect = NotCalled

CallIntersect ==
  /\ isect = NotCalled
  /\ isect' = SphereIntersect(s_center, s_radius, q_origin, q_direction)
  /\ UNCHANGED <<s_center, s_radius, q_origin, q_direction>>
  /\ UNCHANGED <<shadeVars, imageVars, renderVars>>

IsectNext == CallIntersect

----------------------------------------------------------------------------
(* Image.  _pixels[y][x], both indices from 0.                             *)
\* a slip: the two sizes of the grid exchanged
ImageNewTransposed(w, h, fill) ==
  [y \in 0..(w - 1) |-> [x \in 0..(h - 1) |-> fill]]

ImageNew(w, h, fill) == [y \in 0..(h - 1) |-> [x \in 0..(w - 1) |-> fill]]

ImgWidth(p) == Cardinality(DOMAIN p[0])
ImgHeight(p) == Cardinality(DOMAIN p)

is_x_coordinate(p, x) == x >= 0 /\ x < ImgWidth(p)
is_y_coordinate(p, y) == y >= 0 /\ y < ImgHeight(p)
is_coordinate(p, x, y) == is_x_coordinate(p, x) /\ is_y_coordinate(p, y)

\* pixel(x, y), where its assert holds
Pixel(p, x, y) == p[y][x]

\* the assignment of set_pixel
StorePixel(p, x, y, color) == [p EXCEPT ![y][x] = color]

\* a slip: the colour is not checked
SetPixelAcceptsAnyColor(p, x, y, color) == is_coordinate(p, x, y)

\* the two asserts of set_pixel
SetPixelAccepts(p, x, y, color) == is_coordinate(p, x, y) /\ is_color(color)

\* round(): to the nearest integer, halves away from zero
Round(x) ==
  IF x[1] >= 0 THEN (2 * x[1] + x[2]) \div (2 * x[2])
  ELSE -((2 * (-x[1]) + x[2]) \div (2 * x[2]))

\* discretize(), where its assert holds
Discretize(intensity) ==
  LET x == Round(RMul(intensity, R(255)))
  IN IF x < 0 THEN 0 ELSE IF x > 255 THEN 255 ELSE x

\* the next (x, y) of the loops of write_ppm: x upwards, then the row below
NextColumn(x) == x + 1
NextRow(y) == y - 1
\* a slip: the rows are started from the bottom scanline
FirstRowBottom(p) == 0
FirstRow(p) == ImgHeight(p) - 1

Black == <<R(0), R(0), R(0)>>
Mixed == <<<<1, 2>>, <<1, 4>>, R(1)>>
Faint == <<<<1, 510>>, <<1, 3>>, <<2, 3>>>>
NotAColor == <<<<3, 2>>, R(0), <<-1, 2>>>>
Palette == {Mixed, Faint, NotAColor}
Fills == {Black, NotAColor}
NoCall == [x |-> 0, y |-> 0, color |-> Black]

ImageIdle ==
  /\ _pixels = ImageNew(1, 1, Black) /\ img_pc = "idle"
  /\ n_set = 0 /\ last_set = NoCall
  /\ wy = 0 /\ wx = 0 /\ f_out = <<>> /\ success = FALSE

ImageInit ==
  /\ \E w \in 1..MaxDim, h \in 1..MaxDim, fill \in Fills :
       _pixels = ImageNew(w, h, fill)
  /\ img_pc = "ready"
  /\ n_set = 0 /\ last_set = NoCall
  /\ wy = 0 /\ wx = 0 /\ f_out = <<>> /\ success = FALSE

SetPixel(x, y, color) ==
  /\ img_pc = "ready" /\ n_set < MaxSetPixels
  /\ n_set' = n_set + 1
  /\ last_set' = [x |-> x, y |-> y, color |-> color]
  /\ IF SetPixelAccepts(_pixels, x, y, color)
     THEN _pixels' = StorePixel(_pixels, x, y, color) /\ img_pc' = img_pc
     ELSE _pixels' = _pixels /\ img_pc' = "aborted"
  /\ UNCHANGED <<wy, wx, f_out, success>>
  /\ UNCHANGED <<isectVars, shadeVars, renderVars>>

\* std::ofstream f(path); if (!f) return false;
WritePpmOpenFails ==
  /\ img_pc = "ready"
  /\ img_pc' = "done" /\ success' = FALSE
  /\ UNCHANGED <<_pixels, n_set, last_set, wy, wx, f_out>>
  /\ UNCHANGED <<isectVars, shadeVars, renderVars>>

\* the header, and the initialisation of the two loops
WritePpmOpen ==
  /\ img_pc = "ready"
  /\ img_pc' = "writing"
  /\ f_out' = << <<"P3">>, <<ImgWidth(_pixels), ImgHeight(_pixels)>>, <<255>> >>
  /\ wy' = FirstRow(_pixels) /\ wx' = 0
  /\ UNCHANGED <<_pixels, n_set, last_set, success>>
  /\ UNCHANGED <<isectVars, shadeVars, renderVars>>

\* one pass of the inner loop: the three channels of pixel (wx, wy)
WritePpmPixel ==
  /\ img_pc = "writing" /\ wy >= 0 /\ wx < ImgWidth(_pixels)
  /\ LET c == Pixel(_pixels, wx, wy)
         triple == <<Discretize(c[1]), Discretize(c[2]), Discretize(c[3])>>
     IN IF is_color(c)
        THEN /\ f_out' = IF wx > 0
                         THEN [f_out EXCEPT ![Len(f_out)] = @ \o triple]
                         ELSE Append(f_out, triple)
             /\ wx' = NextColumn(wx) /\ img_pc' = img_pc
        ELSE \* the assert of discretize
             /\ img_pc' = "aborted" /\ UNCHANGED <<f_out, wx>>
  /\ UNCHANGED <<_pixels, n_set, last_set, wy, success>>
  /\ UNCHANGED <<isectVars, shadeVars, renderVars>>

\* f << std::endl, and the next row
WritePpmEndRow ==
  /\ img_pc = "writing" /\ wy >= 0 /\ wx >= ImgWidth(_pixels)
  /\ wy' = NextRow(wy) /\ wx' = 0
  /\ UNCHANGED <<_pixels, n_set, last_set, img_pc, f_out, success>>
  /\ UNCHANGED <<isectVars, shadeVars, renderVars>>

WritePpmClose ==
  /\ img_pc = "writing" /\ wy < 0
  /\ img_pc' = "done" /\ success' = TRUE
  /\ UNCHANGED <<_pixels, n_set, last_set, wy, wx, f_out>>
  /\ UNCHANGED <<isectVars, shadeVars, renderVars>>

ImageNext ==
  \/ \E x \in -1..MaxDim, y \in -1..MaxDim, color \in Palette :
       SetPixel(x, y, color)
  \/ WritePpmOpenFails
  \/ WritePpmOpen
  \/ WritePpmPixel
  \/ WritePpmEndRow
  \/ WritePpmClose


----------------------------------------------------------------------------
(* Scene::evaluate_shading(obj, inter, normal).  sh_scene holds what the   *)
(* call reads: the diffuse colour of obj, the ambient intensity, the point *)
(* lights, inter and normal.                                               *)
UnitNormal(normal) == VDivide(normal, Magnitude(normal))

LightDisplacement(light, inter) == VSub(light.location, inter)

MaxLight(normal, light, inter) ==
  LET light_displacement == LightDisplacement(light, inter)
      unit_light_vector ==
        VDivide(light_displacement, Magnitude(light_displacement))
  IN RMax(R(0), VDot(UnitNormal(normal), unit_light_vector))

PointLightIntensity(light, inter) ==
  RDiv(light.intensity, Magnitude(LightDisplacement(light, inter)))

CurrentPointLight(diffuse, normal, light, inter) ==
  CScale(CScale(diffuse, MaxLight(normal, light, inter)),
         PointLightIntensity(light, inter))

AddAmbient(total, ambient_intensity) ==
  CAdd(total, <<ambient_intensity, ambient_intensity, ambient_intensity>>)

\* "return ;" names no value: the caller may see the total the function
\* has built, or any other colour-shaped value
ReturnedValues(total) == {total} \cup Palette

ExactShade(sc) ==
  /\ ExactSqrt(MagnitudeSquared(sc.normal))
  /\ MagnitudeSquared(sc.normal) # R(0)
  /\ \A n \in DOMAIN sc.lights :
       /\ ExactSqrt(MagnitudeSquared(LightDisplacement(sc.lights[n], sc.inter)))
       /\ MagnitudeSquared(LightDisplacement(sc.lights[n], sc.inter)) # R(0)

RECURSIVE SeqsUpTo(_, _)
SeqsUpTo(S, n) ==
  IF n = 0 THEN {<<>>}
  ELSE LET shorter == SeqsUpTo(S, n - 1)
       IN shorter \cup {Append(q, e) : q \in shorter, e \in S}

White == <<R(1), R(1), R(1)>>
LightChoices ==
  {[intensity |-> R(n), location |-> loc] :
     n \in {1, 4},
     loc \in {vector4_point(0, 0, 1), vector4_point(0, 0, 2),
              vector4_point(0, 3, 4)}}
ShadeInputs ==
  {[diffuse |-> df, ambient |-> am, lights |-> ls, inter |-> vector4_point(0, 0, 0),
    normal |-> nm] :
     df \in {White, Mixed}, am \in {<<1, 4>>, R(1)},
     ls \in SeqsUpTo(LightChoices, MaxLights),
     nm \in {vector4_translation(0, 0, 2), vector4_translation(0, 3, 4),
             vector4_translation(0, 0, -2)}}

ShadeIdle ==
  /\ sh_pc = "idle"
  /\ sh_scene = [diffuse |-> Black, ambient |-> R(1), lights |-> <<>>,
                 inter |-> vector4_point(0, 0, 0),
                 normal |-> vector4_translation(0, 0, 1)]
  /\ lidx = 0 /\ accumulated_light = Black /\ current_point_light = Black
  /\ sh_result = Black

ShadeInit ==
  /\ sh_scene \in ShadeInputs
  /\ ExactShade(sh_scene)
  /\ sh_pc = "lights"
  /\ lidx = 0 /\ accumulated_light = Black /\ current_point_light = Black
  /\ sh_result = Black

\* one pass of the loop over _point_lights
ShadeLight ==
  /\ sh_pc = "lights" /\ lidx < Len(sh_scene.lights)
  /\ lidx' = lidx + 1
  /\ current_point_light' =
       CurrentPointLight(sh_scene.diffuse, sh_scene.normal,
                         sh_scene.lights[lidx + 1], sh_scene.inter)
  /\ accumulated_light' = CAdd(accumulated_light, current_point_light')
  /\ UNCHANGED <<sh_pc, sh_scene, sh_result>>
  /\ UNCHANGED <<isectVars, imageVars, renderVars>>

\* accumulated_light += _ambient_light->intensity
ShadeAmbient ==
  /\ sh_pc = "lights" /\ lidx >= Len(sh_scene.lights)
  /\ accumulated_light' = AddAmbient(accumulated_light, sh_scene.ambient)
  /\ sh_pc' = "return"
  /\ UNCHANGED <<sh_scene, lidx, current_point_light, sh_result>>
  /\ UNCHANGED <<isectVars, imageVars, renderVars>>

ShadeReturn ==
  /\ sh_pc = "return"
  /\ sh_result' \in ReturnedValues(accumulated_light)
  /\ sh_pc' = "done"
  /\ UNCHANGED <<sh_scene, lidx, accumulated_light, current_point_light>>
  /\ UNCHANGED <<isectVars, imageVars, renderVars>>

ShadeNext == ShadeLight \/ ShadeAmbient \/ ShadeReturn


----------------------------------------------------------------------------
(* Scene::render and Scene::compute_viewing_ray.                           *)

\* u and v of compute_viewing_ray: the pixel centre on the image plane
PlaneU(cam, ii, w) ==
  RAdd(cam.l, RDiv(RMul(RSub(cam.r, cam.l), <<2 * ii + 1, 2>>), R(w)))
PlaneV(cam, jj, h) ==
  RAdd(cam.b, RDiv(RMul(RSub(cam.t, cam.b), <<2 * jj + 1, 2>>), R(h)))

\* the two branches of compute_viewing_ray, given the values it finds in
\* vec_u, vec_v and vec_w
ViewingRay(cam, perspective, ii, jj, w, h, vec_u, vec_v, vec_w) ==
  LET u == PlaneU(cam, ii, w)
      v == PlaneV(cam, jj, h)
  IN IF perspective
     THEN [direction |-> VAdd(VAdd(VScale(vec_w, RNeg(cam.d)), VScale(vec_u, u)),
                              VScale(vec_v, v)),
           origin |-> VScale(cam.location, R(1))]
     ELSE [direction |-> VNeg(vec_w),
           origin |-> VAdd(VAdd(cam.location, VScale(vec_u, u)),
                           VScale(vec_v, v))]

\* vec_u, vec_v and vec_w are declared and never assigned: what a call
\* reads through them is not determined by the program.  Either the read
\* faults (RenderFault), or it yields some three vectors.
BasisValues ==
  {[u |-> vector4_translation(1, 0, 0), v |-> vector4_translation(0, 1, 0),
    w |-> vector4_translation(0, 0, 1)],
   [u |-> vector4_translation(0, 1, 0), v |-> vector4_translation(1, 0, 0),
    w |-> vector4(0, 0, 1, 1)]}

Cameras ==
  {[location |-> vector4_point(0, 0, 0), gaze |-> vector4_translation(0, 0, -1),
    up |-> vector4_translation(0, 1, 0),
    l |-> R(-1), t |-> R(1), r |-> R(1), b |-> R(-1), d |-> R(1)],
   [location |-> vector4_point(0, 0, 1), gaze |-> vector4_translation(0, 0, -1),
    up |-> vector4_translation(0, 1, 0),
    l |-> R(-1), t |-> R(1), r |-> R(1), b |-> R(-1), d |-> R(1)]}

\* a sphere on the optical axis in front of the camera, and one behind it
SphereChoices ==
  {[center |-> vector4_point(0, 0, -3), radius |-> <<1, 4>>, diffuse |-> White],
   [center |-> vector4_point(0, 0, 4), radius |-> <<1, 4>>, diffuse |-> Mixed]}

FirstCamera == CHOOSE cam \in Cameras : cam.location = vector4_point(0, 0, 0)

\* every camera and light list for the empty scene; the scenes that hold
\* objects use the first camera and no point light
Scenes ==
  {sc \in
     {[ambient |-> R(1), background |-> bg, camera |-> cam, perspective |-> pp,
       objects |-> objs, point_lights |-> ls] :
        bg \in {Black, Mixed}, cam \in Cameras, pp \in BOOLEAN,
        objs \in SeqsUpTo(SphereChoices, MaxObjects),
        ls \in SeqsUpTo({[intensity |-> R(1),
                          location |-> vector4_point(0, 0, 2)]}, MaxLights)} :
     sc.objects # <<>> => sc.camera = FirstCamera /\ sc.point_lights = <<>>}

RenderIdle ==
  /\ scene = [ambient |-> R(1), background |-> Black,
              camera |-> FirstCamera,
              perspective |-> FALSE, objects |-> <<>>, point_lights |-> <<>>]
  /\ r_pc = "idle" /\ width = 0 /\ height = 0
  /\ image = ImageNew(1, 1, Black)
  /\ i = 0 /\ j = 0 /\ k = 1
  /\ ray_origin = vector4_point(0, 0, 0)
  /\ ray_direction = vector4_translation(0, 0, -1)
  /\ hit_point = NotCalled /\ shade_calls = 0

\* the Scene as constructed, with its objects and lights added
RenderInit ==
  /\ scene \in Scenes
  /\ r_pc = "start" /\ width = 0 /\ height = 0
  /\ image = ImageNew(1, 1, Black)
  /\ i = 0 /\ j = 0 /\ k = 1
  /\ ray_origin = vector4_point(0, 0, 0)
  /\ ray_direction = vector4_translation(0, 0, -1)
  /\ hit_point = NotCalled /\ shade_calls = 0

\* render(w, h) up to the loops: the two asserts and the new Image
RenderBegin(w, h) ==
  /\ r_pc = "start"
  /\ width' = w /\ height' = h
  /\ IF w > 0 /\ h > 0
     THEN /\ image' = ImageNew(w, h, scene.background)
          /\ r_pc' = "loop"
     ELSE /\ image' = image
          /\ r_pc' = "aborted"
  /\ i' = 0 /\ j' = 0 /\ k' = 1
  /\ UNCHANGED <<scene, ray_origin, ray_direction, hit_point, shade_calls>>
  /\ UNCHANGED <<isectVars, shadeVars, imageVars>>

InPixelLoop == r_pc = "loop" /\ j < height /\ i < width

\* the body of "for (auto scene_obj : _objects)" for object k of pixel (i, j)
RenderObject ==
  /\ InPixelLoop /\ k <= Len(scene.objects)
  /\ \E basis \in BasisValues :
       LET ray == ViewingRay(scene.camera, scene.perspective, i, j, width,
                             height, basis.u, basis.v, basis.w)
           obj == scene.objects[k]
           hit == SphereIntersect(obj.center, obj.radius, ray.origin,
                                  ray.direction)
       IN /\ ExactQuery(obj.center, obj.radius, ray.origin, ray.direction)
          /\ ray_origin' = ray.origin
          /\ ray_direction' = ray.direction
          /\ hit_point' = hit
          /\ IF hit.kind = "abort"
             THEN UNCHANGED <<image, k>> /\ r_pc' = "aborted"
             ELSE IF hit.kind = "hit"
             THEN \* the call that shades the pixel is commented out
                  /\ image' = image /\ k' = k + 1 /\ r_pc' = r_pc
             ELSE IF SetPixelAccepts(image, i, j, scene.background)
             THEN /\ image' = StorePixel(image, i, j, scene.background)
                  /\ k' = k + 1 /\ r_pc' = r_pc
             ELSE UNCHANGED <<image, k>> /\ r_pc' = "aborted"
  /\ UNCHANGED <<scene, width, height, i, j, shade_calls>>
  /\ UNCHANGED <<isectVars, shadeVars, imageVars>>

\* the read through vec_u, vec_v or vec_w faults
RenderFault ==
  /\ InPixelLoop /\ k <= Len(scene.objects)
  /\ r_pc' = "faulted"
  /\ UNCHANGED <<scene, width, height, image, i, j, k, ray_origin,
                 ray_direction, hit_point, shade_calls>>
  /\ UNCHANGED <<isectVars, shadeVars, imageVars>>

\* ++i
RenderNextPixel ==
  /\ InPixelLoop /\ k > Len(scene.objects)
  /\ i' = i + 1 /\ k' = 1
  /\ UNCHANGED <<scene, r_pc, width, height, image, j, ray_origin,
                 ray_direction, hit_point, shade_calls>>
  /\ UNCHANGED <<isectVars, shadeVars, imageVars>>

\* ++j
RenderNextRow ==
  /\ r_pc = "loop" /\ j < height /\ i >= width
  /\ j' = j + 1 /\ i' = 0
  /\ UNCHANGED <<scene, r_pc, width, height, image, k, ray_origin,
                 ray_direction, hit_point, shade_calls>>
  /\ UNCHANGED <<isectVars, shadeVars, imageVars>>

\* return image
RenderReturn ==
  /\ r_pc = "loop" /\ j >= height
  /\ r_pc' = "done"
  /\ UNCHANGED <<scene, width, height, image, i, j, k, ray_origin,
                 ray_direction, hit_point, shade_calls>>
  /\ UNCHANGED <<isectVars, shadeVars, imageVars>>

RenderNext ==
  \/ \E w \in 0..MaxDim, h \in 0..MaxDim : RenderBegin(w, h)
  \/ RenderObject
  \/ RenderFault
  \/ RenderNextPixel
  \/ RenderNextRow
  \/ RenderReturn

----------------------------------------------------------------------------
(* Properties of SceneSphere::intersect (SpecIntersect).                   *)

\* the two roots of the quadratic of the query, the smaller first
RootLow ==
  RDiv(RSub(RNeg(QuadB(s_center, q_origin, q_direction)),
            RSqrt(Discriminant(s_center, s_radius, q_origin, q_direction))),
       RMul(R(2), QuadA(q_origin, q_direction)))
RootHigh ==
  RDiv(RAdd(RNeg(QuadB(s_center, q_origin, q_direction)),
            RSqrt(Discriminant(s_center, s_radius, q_origin, q_direction))),
       RMul(R(2), QuadA(q_origin, q_direction)))
HasRoots ==
  RLe(R(0), Discriminant(s_center, s_radius, q_origin, q_direction))
SmallestNonNegativeRoot == IF RLe(R(0), RootLow) THEN RootLow ELSE RootHigh

\* C4: when the quadratic has a non-negative root, intersect returns a hit
\* whose t is the smallest non-negative root (the larger root when the
\* smaller one is negative), at the point origin + t * direction.
C4_SmallestNonNegativeRoot ==
  (isect # NotCalled /\ HasRoots /\ RLe(R(0), RootHigh)) =>
    /\ isect.kind = "hit"
    /\ isect.t = SmallestNonNegativeRoot
    /\ isect.point = VAdd(q_origin, VScale(q_direction, SmallestNonNegativeRoot))

\* C5: intersect never fails and never builds an Intersection with t < 0;
\* with a negative discriminant or two negative roots it returns "no hit".
C5_NoHitInsteadOfNegativeT ==
  isect # NotCalled =>
    /\ isect.kind # "abort"
    /\ isect.kind = "hit" => RLe(R(0), isect.t)
    /\ (~HasRoots \/ RLt(RootHigh, R(0))) => isect = NoHit

----------------------------------------------------------------------------
(* Properties of Scene::evaluate_shading (SpecShade).                      *)

\* C6: every channel of the colour the shading evaluation returns is in
\* [0, 1], whatever the lights: the accumulated total is clamped.
C6_ShadingIsColor ==
  sh_pc = "done" => is_color(sh_result) /\ is_color(accumulated_light)

\* C9: the contribution of a point light is scaled by intensity / distance^2,
\* distance being the length of (light location - intersection point).
C9_InverseSquareAttenuation ==
  lidx > 0 =>
    LET light == sh_scene.lights[lidx]
        attenuation ==
          RDiv(light.intensity,
               MagnitudeSquared(LightDisplacement(light, sh_scene.inter)))
    IN current_point_light =
         CScale(CScale(sh_scene.diffuse,
                       MaxLight(sh_scene.normal, light, sh_scene.inter)),
                attenuation)

----------------------------------------------------------------------------
(* Properties of Image (SpecImage).                                        *)

\* C7: set_pixel never changes the width or the height; a call with (x, y)
\* outside the grid or with a channel outside [0, 1] is rejected and changes
\* no pixel; an accepted call makes pixel(x, y) return the colour and
\* leaves every other pixel as it was.
C7_SetPixelContract ==
  [][n_set' = n_set + 1 =>
       LET x == last_set'.x
           y == last_set'.y
           c == last_set'.color
       IN /\ ImgWidth(_pixels') = ImgWidth(_pixels)
          /\ ImgHeight(_pixels') = ImgHeight(_pixels)
          /\ IF x >= 0 /\ x < ImgWidth(_pixels) /\ y >= 0
                  /\ y < ImgHeight(_pixels)
                  /\ \A ch \in 1..3 : RLe(R(0), c[ch]) /\ RLe(c[ch], R(1))
             THEN /\ img_pc' = "ready"
                  /\ Pixel(_pixels', x, y) = c
                  /\ \A yy \in DOMAIN _pixels : \A xx \in DOMAIN _pixels[yy] :
                       <<xx, yy>> # <<x, y>> =>
                         Pixel(_pixels', xx, yy) = Pixel(_pixels, xx, yy)
             ELSE img_pc' = "aborted" /\ _pixels' = _pixels]_vars

C7_Witness ==
  /\ img_pc = "ready" /\ n_set = 2
  /\ ImgWidth(_pixels) = 2 /\ ImgHeight(_pixels) = 2
  /\ Pixel(_pixels, 1, 0) = Mixed /\ Pixel(_pixels, 0, 1) = Faint
  /\ Pixel(_pixels, 0, 0) = Black /\ Pixel(_pixels, 1, 1) = Black

\* the channel values write_ppm is to emit for row y, left to right
RECURSIVE RowValues(_, _, _)
RowValues(p, y, n) ==
  IF n = 0 THEN <<>>
  ELSE LET c == Pixel(p, n - 1, y)
       IN RowValues(p, y, n - 1) \o
            <<Round(RMul(c[1], R(255))), Round(RMul(c[2], R(255))),
              Round(RMul(c[3], R(255)))>>

\* C8: after the three header lines write_ppm emits the rows from row
\* height-1 down to row 0, each of width R G B triples in increasing x, each
\* value round(intensity * 255) and in [0, 255]; a completed write has
\* emitted exactly height rows.
C8_PpmRowsTopDown ==
  img_pc \in {"writing", "done", "aborted"} /\ Len(f_out) >= 3 =>
    LET rows == Len(f_out) - 3
        h == ImgHeight(_pixels)
        w == ImgWidth(_pixels)
    IN /\ rows <= h
       /\ \A r \in 1..rows :
            LET line == f_out[3 + r]
            IN /\ Len(line) % 3 = 0 /\ Len(line) <= 3 * w
               /\ r < rows => Len(line) = 3 * w
               /\ line = RowValues(_pixels, h - r, Len(line) \div 3)
               /\ \A n \in 1..Len(line) : line[n] >= 0 /\ line[n] <= 255
       /\ (img_pc = "done" /\ success) =>
            rows = h /\ Len(f_out[3 + rows]) = 3 * w

C8_Witness ==
  /\ img_pc = "done" /\ success
  /\ ImgWidth(_pixels) = 2 /\ ImgHeight(_pixels) = 2
  /\ Pixel(_pixels, 1, 0) = Mixed /\ Pixel(_pixels, 0, 1) = Faint
  /\ f_out[4] = <<1, 85, 170, 0, 0, 0>>
  /\ f_out[5] = <<0, 0, 0, 128, 64, 255>>

----------------------------------------------------------------------------
(* Properties of Scene::render (SpecRender).                               *)

\* pixel (i, j) has been taken through every object of a scene that has some
PixelDone == InPixelLoop /\ scene.objects # <<>> /\ k > Len(scene.objects)

HitOf(n) ==
  SphereIntersect(scene.objects[n].center, scene.objects[n].radius,
                  ray_origin, ray_direction)
AllExact ==
  \A n \in DOMAIN scene.objects :
    ExactQuery(scene.objects[n].center, scene.objects[n].radius, ray_origin,
               ray_direction)
HitObjects == {n \in DOMAIN scene.objects : HitOf(n).kind = "hit"}
\* the hit with the smallest t, the first inserted among equals
NearestHit ==
  CHOOSE n \in HitObjects :
    \A m \in HitObjects :
      \/ RLt(HitOf(n).t, HitOf(m).t)
      \/ HitOf(n).t = HitOf(m).t /\ n <= m

\* the total of the shading evaluation for object n at its hit
RECURSIVE LightsTotal(_, _, _)
LightsTotal(n, hit, m) ==
  IF m = 0 THEN Black
  ELSE CAdd(LightsTotal(n, hit, m - 1),
            CurrentPointLight(scene.objects[n].diffuse, hit.normal,
                              scene.point_lights[m], hit.point))
ShadingOf(n) ==
  AddAmbient(LightsTotal(n, HitOf(n), Len(scene.point_lights)), scene.ambient)

\* C1: a pixel whose viewing ray hits some primitive ends with the shading
\* of the hit of smallest t (the first inserted among equals), and shading
\* is evaluated exactly once for the pixel.
C1_NearestHitShadedOnce ==
  (PixelDone /\ AllExact /\ HitObjects # {}) =>
    /\ shade_calls = 1
    /\ Pixel(image, i, j) = ShadingOf(NearestHit)

\* C2: a pixel ends with the background colour only if its ray hits no
\* primitive of the scene.
C2_BackgroundOnlyWithoutHit ==
  (PixelDone /\ AllExact /\ Pixel(image, i, j) = scene.background) =>
    HitObjects = {}

\* C3: with zero primitives the image render builds has exactly width x
\* height pixels and every pixel is the background colour, for any camera,
\* projection and point lights.
C3_EmptySceneIsBackground ==
  (r_pc \in {"loop", "done"} /\ scene.objects = <<>>) =>
    /\ ImgWidth(image) = width /\ ImgHeight(image) = height
    /\ \A y \in 0..(height - 1) : \A x \in 0..(width - 1) :
         Pixel(image, x, y) = scene.background

C3_Witness ==
  /\ r_pc = "done" /\ scene.objects = <<>>
  /\ width = 2 /\ height = 1
  /\ scene.perspective /\ scene.point_lights # <<>>
  /\ scene.camera # FirstCamera /\ scene.background = Mixed
  /\ Pixel(image, 1, 0) = Mixed

\* the basis of the camera: w against the gaze, u = up x w, v = w x u
\* (the cameras of the model have unit gaze and up)
Cross(a, b) ==
  <<RSub(RMul(a[2], b[3]), RMul(a[3], b[2])),
    RSub(RMul(a[3], b[1]), RMul(a[1], b[3])),
    RSub(RMul(a[1], b[2]), RMul(a[2], b[1])), R(0)>>
WAxis(cam) == VNeg(cam.gaze)
UAxis(cam) == Cross(cam.up, WAxis(cam))
VAxis(cam) == Cross(WAxis(cam), UAxis(cam))

\* C10: the viewing ray of every pixel (i, j) has a point (w = 1) as origin
\* and a direction (w = 0); under perspective the origin is the camera
\* location and the direction is -d*w_axis + u*u_axis + v*v_axis, under
\* orthographic projection the direction is -w_axis and the origin is the
\* camera location + u*u_axis + v*v_axis, u and v at the pixel centre.
C10_ViewingRay ==
  /\ r_pc # "faulted"
  /\ (r_pc = "loop" /\ k > 1) =>
       LET cam == scene.camera
           u == PlaneU(cam, i, width)
           v == PlaneV(cam, j, height)
           offset == VAdd(VScale(UAxis(cam), u), VScale(VAxis(cam), v))
       IN /\ is_homogeneous_point(ray_origin)
          /\ is_homogeneous_translation(ray_direction)
          /\ IF scene.perspective
             THEN /\ ray_origin = cam.location
                  /\ ray_direction =
                       VAdd(VScale(WAxis(cam), RNeg(cam.d)), offset)
             ELSE /\ ray_direction = VNeg(WAxis(cam))
                  /\ ray_origin = VAdd(cam.location, offset)

----------------------------------------------------------------------------
(* The specifications: one per part of the module.                         *)
IntersectStart == IsectInit /\ ShadeIdle /\ ImageIdle /\ RenderIdle
SpecIntersect == IntersectStart /\ [][IsectNext]_vars

ImageStart == ImageInit /\ IsectIdle /\ ShadeIdle /\ RenderIdle
SpecImage == ImageStart /\ [][ImageNext]_vars

ShadeStart == ShadeInit /\ IsectIdle /\ ImageIdle /\ RenderIdle
SpecShade == ShadeStart /\ [][ShadeNext]_vars

RenderStart == RenderInit /\ IsectIdle /\ ShadeIdle /\ ImageIdle
SpecRender == RenderStart /\ [][RenderNext]_vars

====
